---- MODULE Spec2Model ----
(***************************************************************************)
(* A model of the sequential ("fused recurrent") IPLR delta-rule engine of *)
(* fla/ops/generalized_delta_rule/iplr/fused_recurrent.py and of the       *)
(* GatedSlotAttention layer of fla/layers/gsa.py.                          *)
(*                                                                         *)
(* Tensors are flat row-major buffers, addressed as the kernels address    *)
(* them (base pointer + offset).  Arithmetic is exact integer arithmetic:  *)
(* the float32 accumulation and the casts on store are exact here, so      *)
(* rounding is outside the model.  An output buffer is a partial map from  *)
(* offsets to values: torch.empty leaves it unwritten, a store adds the    *)
(* offset (also past the allocation, whose size is kept apart).            *)
(***************************************************************************)
EXTENDS Integers, Sequences, FiniteSets, TLC

\* ------------------------------------------------------------------ bounds
MaxB == 2
MaxT == 2
MaxH == 2
MaxK == 3
MaxV == 3
MaxElems == 9
MaxUnits == 2
MaxSeg == 2
MaxSeed == 1
MaxScale == 2

\* ------------------------------------------------------- program constants
\* triton.autotune configs of the forward kernel: BV in [32, 64]
BVConfigs == {32, 64}
\* backward: BV = min(next_power_of_2(V), 64)
BVCap == 64

\* ------------------------------------------------------------ arithmetic
RECURSIVE Pow2From(_, _)
Pow2From(p, n) == IF p >= n THEN p ELSE Pow2From(2 * p, n)

next_power_of_2(n) == Pow2From(1, n)

cdiv(x, y) == (x + y - 1) \div y

Min(x, y) == IF x <= y THEN x ELSE y

\* tl.sum over the lanes 0..(n - 1) of a vector
RECURSIVE SumTo(_, _)
SumTo(f, n) == IF n = 0 THEN 0 ELSE f[n - 1] + SumTo(f, n - 1)

\* The empty buffer (torch.empty: nothing written yet) and the absent tensor.
Empty == <<>>

\* ------------------------------------------------------------ test inputs
\* A tensor of n elements drawn from {-1, 0, 1}, fixed by a seed and a tensor id.
Gen(seed, tid, i) == (((seed + 1) * (i + 1) + tid * (i + seed + 1) + (i \div 2)) % 3) - 1

FlatTensor(n, seed, tid) == [i \in 0..(n - 1) |-> Gen(seed, tid, i)]

VARIABLES
    pc,     \* position of the engine call: "call", "raised", "fwd", "fwd_done", ...
    c,      \* the arguments of the current engine call (tensors, flags, shape)
    meta,   \* what Function.forward fixed before the launch: N, BV, scale, sizes
    regs,   \* per program unit <<i_v, i_nh>>: its loop counter and its b_h block
    out,    \* the buffers the forward launch writes: o, ha, ht
    err,    \* the error the call raised, "" while there is none
    g,      \* the arguments of backward: do, dht, and what the launch fixed
    bregs,  \* per unit of the backward launch: its position and its block
    gout,   \* the buffers the backward launch writes, and the returned gradients
    chain,  \* a sequence split over two calls: the stage, the split point, the
            \* whole-sequence call and its results, the outputs of the first call
    gsa,    \* the GatedSlotAttention object: mode, feature_map, use_short_conv
    args,   \* the arguments of the latest GatedSlotAttention.forward call
    past_key_values,  \* the caller's cache object
    calls,  \* the engine invocations of the latest forward call
    ret,    \* the output the latest forward call returned
    forwards  \* the number of forward calls made

vars == <<pc, c, meta, regs, out, err, g, bregs, gout, chain,
          gsa, args, past_key_values, calls, ret, forwards>>

layerVars == <<gsa, args, past_key_values, calls, ret, forwards>>

fwdVars == <<c, meta, regs, out, err>>

bwdVars == <<g, bregs, gout>>

\* ------------------------------------------------------------- call inputs
\* shapes whose value axis is one wider than a block width, so that the last
\* value block is partial
WideShapes == {[B |-> 1, T |-> 1, H |-> 1, K |-> 1, V |-> bv + 1] : bv \in BVConfigs}

Shapes ==
    {d \in [B : 1..MaxB, T : 0..MaxT, H : 1..MaxH, K : 1..MaxK, V : 1..MaxV] :
        /\ d.B * (IF d.T = 0 THEN 1 ELSE d.T) * d.H * d.K * d.V <= MaxElems
        /\ d.B * d.H <= MaxUnits}
    \cup WideShapes

\* cu_seqlens tables over a flattened input of T positions: N+1 nondecreasing
\* offsets from 0 to T, N in 1..MaxSeg.
CuTables(T) ==
    {s \in UNION {[1..(n + 1) -> 0..T] : n \in 1..MaxSeg} :
        /\ s[1] = 0
        /\ s[Len(s)] = T
        /\ \A i \in 1..(Len(s) - 1) : s[i] <= s[i + 1]}

\* scale arguments: None, or a number (non-positive ones included)
ScaleArgs ==
    {[none |-> TRUE, val |-> 0]} \cup {[none |-> FALSE, val |-> s] : s \in {0 - 1, 0, MaxScale}}

\* The arguments of one call of fused_recurrent_iplr_delta_rule.
MkCall(d, varlen, cu, useH0, h0N, outFinal, sc, seed) ==
    [B |-> d.B, T |-> d.T, H |-> d.H, K |-> d.K, V |-> d.V,
     varlen |-> varlen, cu |-> cu,
     useH0 |-> useH0, h0N |-> h0N, outFinal |-> outFinal,
     scaleNone |-> sc.none, scale |-> sc.val, seed |-> seed,
     q |-> FlatTensor(d.B * d.T * d.H * d.K, seed, 1),
     k |-> FlatTensor(d.B * d.T * d.H * d.K, seed, 2),
     v |-> FlatTensor(d.B * d.T * d.H * d.V, seed, 3),
     a |-> FlatTensor(d.B * d.T * d.H * d.K, seed, 4),
     b |-> FlatTensor(d.B * d.T * d.H * d.K, seed, 5),
     h0 |-> IF useH0 THEN FlatTensor(h0N * d.H * d.K * d.V, seed, 6) ELSE Empty]

\* ------------------------------------------------ kernel address arithmetic
\* A program unit is u = <<i_v, i_nh>> (tl.program_id(0), tl.program_id(1)).
i_v(u) == u[1]

i_nh(u) == u[2]

i_n(cc, u) == i_nh(u) \div cc.H

i_h(cc, u) == i_nh(u) % cc.H

\* bos, eos: the unit's time range, from cu_seqlens when IS_VARLEN
\* Mutant of bos: the segment table is ignored and every sequence is taken to
\* start at a multiple of T.
bos_IgnoresCuSeqlens(cc, u) == i_n(cc, u) * cc.T

bos(cc, u) == IF cc.varlen THEN cc.cu[i_n(cc, u) + 1] ELSE i_n(cc, u) * cc.T

eos(cc, u) == IF cc.varlen THEN cc.cu[i_n(cc, u) + 2] ELSE i_n(cc, u) * cc.T + cc.T

\* the kernel's T after `T = eos - bos`
Tloc(cc, u) == eos(cc, u) - bos(cc, u)

BKof(cc) == next_power_of_2(cc.K)

LanesK(cc) == 0..(BKof(cc) - 1)

LanesV(bv) == 0..(bv - 1)

\* Mutant of mask_k: every lane of the key block is unmasked.
mask_k_WholeBlock(cc, j) == j < BKof(cc)

mask_k(cc, j) == j < cc.K

mask_v(cc, bv, u, j) == (i_v(u) * bv + j) < cc.V

\* p_q, p_k, p_a, p_b (and the backward's dq, dk, da, db inside one slab), lane j,
\* at time step t of the unit's range
p_K(cc, u, t, j) == (bos(cc, u) * cc.H + i_h(cc, u)) * cc.K + j + t * cc.K * cc.H

\* p_v, p_o, p_ha (and the backward's do, dv, dha), lane j, at time step t
p_V(cc, bv, u, t, j) ==
    (bos(cc, u) * cc.H + i_h(cc, u)) * cc.V + i_v(u) * bv + j + t * cc.V * cc.H

\* p_h0, p_ht, p_dh0 and the dht pointer: element (key lane kj, value lane vj)
p_KV(cc, bv, u, kj, vj) == i_nh(u) * cc.K * cc.V + kj * cc.V + (i_v(u) * bv + vj)

\* tl.load(p, mask=m, other=0): 0 on a masked lane.  An unmasked load outside the
\* tensor reads whatever lies there: junk.
Load(buf, p, m, junk) == IF m THEN (IF p \in DOMAIN buf THEN buf[p] ELSE junk) ELSE 0

\* tl.store of the unmasked lanes W (a map from offsets to values) into buf
Store(buf, W) == W @@ buf

\* the key-axis vector at time step t: lane j of tensor buf
LoadK(cc, buf, u, t) ==
    [j \in LanesK(cc) |-> Load(buf, p_K(cc, u, t, j), mask_k(cc, j), 0)]

\* the same from a buffer that may hold unwritten offsets (read as junk)
LoadVJ(cc, bv, buf, u, t, junk) ==
    [j \in LanesV(bv) |-> Load(buf, p_V(cc, bv, u, t, j), mask_v(cc, bv, u, j), junk)]

\* the value-axis vector at time step t
LoadV(cc, bv, buf, u, t) ==
    [j \in LanesV(bv) |-> Load(buf, p_V(cc, bv, u, t, j), mask_v(cc, bv, u, j), 0)]

\* the map a masked vector store writes
StoreV(cc, bv, u, t, vec) ==
    [p \in {p_V(cc, bv, u, t, j) : j \in {l \in LanesV(bv) : mask_v(cc, bv, u, l)}} |->
        vec[p - p_V(cc, bv, u, t, 0)]]

StoreK(cc, u, t, base, vec) ==
    [p \in {base + p_K(cc, u, t, j) : j \in {l \in LanesK(cc) : mask_k(cc, l)}} |->
        vec[p - base - p_K(cc, u, t, 0)]]

\* the unmasked accesses of one vector load or store: buffer, offset, and the
\* key and value index of the lane
AccK(cc, name, u, t, base) ==
    {[buf |-> name, off |-> base + p_K(cc, u, t, j), ki |-> j, vi |-> 0] :
        j \in {l \in LanesK(cc) : mask_k(cc, l)}}

AccV(cc, bv, name, u, t) ==
    {[buf |-> name, off |-> p_V(cc, bv, u, t, j), ki |-> 0, vi |-> i_v(u) * bv + j] :
        j \in {l \in LanesV(bv) : mask_v(cc, bv, u, l)}}

AccKV(cc, bv, name, u) ==
    {[buf |-> name, off |-> p_KV(cc, bv, u, kj, vj), ki |-> kj, vi |-> i_v(u) * bv + vj] :
        kj \in {l \in LanesK(cc) : mask_k(cc, l)},
        vj \in {l \in LanesV(bv) : mask_v(cc, bv, u, l)}}

\* A register block ([BV, BK] in the forward kernel, [BK, BV] in the backward
\* one) is kept in the state as the map of its nonzero entries <<vj, kj>>.
Sparse(cc, bv, blk) ==
    [e \in {x \in LanesV(bv) \X LanesK(cc) : blk[x[1]][x[2]] # 0} |-> blk[e[1]][e[2]]]

Dense(cc, bv, sp) ==
    [vj \in LanesV(bv) |-> [kj \in LanesK(cc) |->
        IF <<vj, kj>> \in DOMAIN sp THEN sp[<<vj, kj>>] ELSE 0]]

\* ---------------------------------------------------------- forward kernel
\* lines 78-87, 95-96: the unmasked accesses of one forward iteration
FwdAccesses(cc, bv, u, t) ==
    AccK(cc, "q", u, t, 0) \cup AccK(cc, "k", u, t, 0) \cup AccK(cc, "a", u, t, 0)
    \cup AccK(cc, "b", u, t, 0) \cup AccV(cc, bv, "v", u, t)
    \cup AccV(cc, bv, "o", u, t) \cup AccV(cc, bv, "ha", u, t)

\* Mutant of FwdPrologue: the initial state is never loaded.
FwdPrologue_NoInitialState(cc, bv, u) ==
    [vj \in LanesV(bv) |-> [kj \in LanesK(cc) |-> 0]]

\* lines 71-75: b_h = zeros([BV, BK]); b_h += load(p_h0, mask_h) when USE_INITIAL_STATE
FwdPrologue(cc, bv, u) ==
    [vj \in LanesV(bv) |-> [kj \in LanesK(cc) |->
        IF cc.useH0
        THEN Load(cc.h0, p_KV(cc, bv, u, kj, vj),
                  mask_k(cc, kj) /\ mask_v(cc, bv, u, vj), 0)
        ELSE 0]]

\* Mutant of FwdIteration: the output is contracted with the block before the
\* update (o_t from S_{t-1}).
FwdIteration_StaleOutput(cc, bv, scale, u, t, b_h) ==
    LET b_k == LoadK(cc, cc.k, u, t)
        b_v == LoadV(cc, bv, cc.v, u, t)
        b_qr == LoadK(cc, cc.q, u, t)
        b_a == LoadK(cc, cc.a, u, t)
        b_b == LoadK(cc, cc.b, u, t)
        tmp == [vj \in LanesV(bv) |->
                   SumTo([kj \in LanesK(cc) |-> b_h[vj][kj] * b_a[kj]], BKof(cc))]
    IN  [b_h |-> [vj \in LanesV(bv) |-> [kj \in LanesK(cc) |->
                     b_h[vj][kj] + (tmp[vj] * b_b[kj] + b_k[kj] * b_v[vj])]],
         b_o |-> [vj \in LanesV(bv) |->
                     SumTo([kj \in LanesK(cc) |-> b_h[vj][kj] * (b_qr[kj] * scale)], BKof(cc))],
         tmp |-> tmp]

\* lines 78-87: one iteration of the time loop, from the block b_h before it
FwdIteration(cc, bv, scale, u, t, b_h) ==
    LET b_k == LoadK(cc, cc.k, u, t)
        b_v == LoadV(cc, bv, cc.v, u, t)
        b_qr == LoadK(cc, cc.q, u, t)
        b_q == [j \in LanesK(cc) |-> b_qr[j] * scale]
        b_a == LoadK(cc, cc.a, u, t)
        b_b == LoadK(cc, cc.b, u, t)
        tmp == [vj \in LanesV(bv) |->
                   SumTo([kj \in LanesK(cc) |-> b_h[vj][kj] * b_a[kj]], BKof(cc))]
        h2 == [vj \in LanesV(bv) |-> [kj \in LanesK(cc) |->
                   b_h[vj][kj] + (tmp[vj] * b_b[kj] + b_k[kj] * b_v[vj])]]
        b_o == [vj \in LanesV(bv) |->
                   SumTo([kj \in LanesK(cc) |-> h2[vj][kj] * b_q[kj]], BKof(cc))]
    IN  [b_h |-> h2, b_o |-> b_o, tmp |-> tmp]

\* lines 98-100: the map the final-state store writes
FwdFinalStore(cc, bv, u, b_h) ==
    [p \in {p_KV(cc, bv, u, kj, vj) :
                kj \in {l \in LanesK(cc) : mask_k(cc, l)},
                vj \in {l \in LanesV(bv) : mask_v(cc, bv, u, l)}} |->
        LET vj == ((p - i_nh(u) * cc.K * cc.V) % cc.V) - i_v(u) * bv
            kj == (p - i_nh(u) * cc.K * cc.V) \div cc.V
        IN  b_h[vj][kj]]

\* ------------------------------------------------- the call and its launch
\* line 438: scale = q.shape[-1] ** -0.5, exact in integers only for K = 1
DefaultScale(K) == CHOOSE s \in 1..K : s * s * K = 1

\* line 294: N = B if cu_seqlens is None else len(cu_seqlens) - 1
NumSeq(cc) == IF cc.varlen THEN Len(cc.cu) - 1 ELSE cc.B

\* lines 304-307: grid = (cdiv(V, BV), N * H)
Units(cc, bv) == (0..(cdiv(cc.V, bv) - 1)) \X (0..(NumSeq(cc) * cc.H - 1))

\* Mutant of CallError: the scale is not checked.
CallError_NoScaleCheck(cc) ==
    IF cc.varlen /\ cc.B # 1 THEN "ValueError: batch size"
    ELSE IF cc.varlen /\ cc.useH0 /\ cc.h0N # Len(cc.cu) - 1
         THEN "ValueError: number of initial states"
    ELSE ""

\* lines 426-440: the checks of fused_recurrent_iplr_delta_rule, "" when all pass
CallError(cc) ==
    IF cc.varlen /\ cc.B # 1 THEN "ValueError: batch size"
    ELSE IF cc.varlen /\ cc.useH0 /\ cc.h0N # Len(cc.cu) - 1
         THEN "ValueError: number of initial states"
    ELSE IF ~cc.scaleNone /\ ~(cc.scale > 0) THEN "AssertionError: scale must be positive"
    ELSE ""

\* lines 293-308: what Function.forward allocates and fixes for the launch
Launch(cc, bv) ==
    [N |-> NumSeq(cc), BV |-> bv,
     scale |-> IF cc.scaleNone THEN DefaultScale(cc.K) ELSE cc.scale,
     oSize |-> cc.B * cc.T * cc.H * cc.V,
     haSize |-> cc.B * cc.T * cc.H * cc.V,
     htSize |-> IF cc.outFinal THEN cc.B * cc.H * cc.K * cc.V ELSE 0]

NoMeta == [N |-> 0, BV |-> 0, scale |-> 0, oSize |-> 0, haSize |-> 0, htSize |-> 0]

NoOut == [o |-> Empty, ha |-> Empty, ht |-> Empty]

NoGrad == [do |-> Empty, dht |-> Empty, useDht |-> FALSE, useDh0 |-> FALSE,
           BV |-> 0, NV |-> 0, junk |-> 0]

\* the layer side before any layer exists
NoLayer == [mode |-> "", feature_map |-> "", use_short_conv |-> FALSE]

NoMask == [rank |-> 0, m |-> <<>>]

\* a cache object with no entry
EmptyCache == [states |-> <<>>, seen |-> 0]

\* cache is the content of the cache object when the call was made
NoArgs == [batch_size |-> 0, q_len |-> 0, hidden_states |-> <<>>, attention_mask |-> NoMask,
           use_cache |-> FALSE, with_cache |-> FALSE, cu_seqlens |-> <<>>,
           cache |-> EmptyCache]

NoChain == [stage |-> "single", T1 |-> 0, whole |-> <<>>, o1 |-> Empty]

NoGout == [dq |-> Empty, dk |-> Empty, dv |-> Empty, da |-> Empty, db |-> Empty,
           dha |-> Empty, dh0 |-> Empty, ret |-> Empty]

\* the engine side of a behaviour of the layer: no call
NoCall ==
    MkCall([B |-> 1, T |-> 0, H |-> 1, K |-> 1, V |-> 1], FALSE, <<>>, FALSE, 0, FALSE,
           [none |-> TRUE, val |-> 0], 0)

EngineInit ==
    \E d \in Shapes, varlen \in BOOLEAN, useH0 \in BOOLEAN, outFinal \in BOOLEAN,
       sc \in ScaleArgs, seed \in 0..MaxSeed :
        \E cu \in (IF varlen THEN CuTables(d.T) ELSE {<<>>}) :
            \E h0N \in (IF ~useH0 THEN {0}
                        ELSE IF varlen THEN {Len(cu) - 1, Len(cu)} ELSE {d.B}) :
                /\ sc.none => d.K = 1
                /\ c = MkCall(d, varlen, cu, useH0, h0N, outFinal, sc, seed)
                /\ pc = "call"
                /\ meta = NoMeta
                /\ regs = <<>>
                /\ out = NoOut
                /\ err = ""
                /\ g = NoGrad
                /\ bregs = <<>>
                /\ gout = NoGout
                /\ chain = NoChain
                /\ gsa = NoLayer
                /\ args = NoArgs
                /\ past_key_values = EmptyCache
                /\ calls = <<>>
                /\ ret = Empty
                /\ forwards = 0

\* the final-state stores of the units in US whose time range is empty: their
\* programs are the prologue and the epilogue only
RECURSIVE FwdEmptyUnits(_, _, _, _)
FwdEmptyUnits(cc, bv, US, ht) ==
    IF US = {} THEN ht
    ELSE LET u == CHOOSE x \in US : TRUE
         IN  FwdEmptyUnits(cc, bv, US \ {u},
                 IF Tloc(cc, u) = 0
                 THEN Store(ht, FwdFinalStore(cc, bv, u, FwdPrologue(cc, bv, u)))
                 ELSE ht)

\* fused_recurrent_iplr_delta_rule up to the kernel launch: the checks, then
\* Function.forward's allocations.  At the launch every unit has run its prologue,
\* and a unit with no time step has run its whole program.
Call ==
    /\ pc = "call"
    /\ \/ /\ CallError(c) # ""
          /\ pc' = "raised"
          /\ err' = CallError(c)
          /\ UNCHANGED <<c, meta, regs, out, bwdVars, chain, layerVars>>
       \/ /\ CallError(c) = ""
          /\ \E bv \in BVConfigs :
                /\ meta' = Launch(c, bv)
                /\ regs' = [u \in Units(c, bv) |->
                               [t |-> 0, b_h |-> Sparse(c, bv, FwdPrologue(c, bv, u))]]
                /\ out' = [NoOut EXCEPT !.ht =
                              IF c.outFinal THEN FwdEmptyUnits(c, bv, Units(c, bv), Empty)
                              ELSE Empty]
          /\ pc' = "fwd"
          /\ UNCHANGED <<c, err, bwdVars, chain, layerVars>>

\* one iteration of the time loop of unit u (lines 77-96); after the last one the
\* unit stores its final state when STORE_FINAL_STATE (lines 98-100)
FwdStep(u) ==
    /\ pc = "fwd"
    /\ regs[u].t < Tloc(c, u)
    /\ LET t == regs[u].t
           r == FwdIteration(c, meta.BV, meta.scale, u, t, Dense(c, meta.BV, regs[u].b_h))
       IN  /\ regs' = [regs EXCEPT ![u] = [t |-> t + 1, b_h |-> Sparse(c, meta.BV, r.b_h)]]
           /\ out' = [o |-> Store(out.o, StoreV(c, meta.BV, u, t, r.b_o)),
                      ha |-> Store(out.ha, StoreV(c, meta.BV, u, t, r.tmp)),
                      ht |-> IF c.outFinal /\ t + 1 = Tloc(c, u)
                             THEN Store(out.ht, FwdFinalStore(c, meta.BV, u, r.b_h))
                             ELSE out.ht]
    /\ UNCHANGED <<pc, c, meta, err, bwdVars, chain, layerVars>>

\* the launch is over (its units and its block width are gone): Function.forward
\* returns o and final_state
FwdReturn ==
    /\ pc = "fwd"
    /\ \A u \in DOMAIN regs : regs[u].t = Tloc(c, u)
    /\ pc' = "fwd_done"
    /\ regs' = <<>>
    /\ meta' = [meta EXCEPT !.BV = 0]
    /\ UNCHANGED <<c, out, err, bwdVars, chain, layerVars>>

\* --------------------------------------------------------- backward kernel
\* line 338: BV = min(triton.next_power_of_2(V), 64)
BwdBV(cc) == Min(next_power_of_2(cc.V), BVCap)

\* Mutant of Slab: every value block writes its partial results in slab 0.
Slab_Shared(cc, u) == 0

\* lines 153-156: the slab of value block i_v in dq, dk, da, db ([NV, B, T, H, K])
Slab(cc, u) == i_v(u) * cc.B * cc.H * cc.K * cc.T

\* lines 193-196: b_dh = zeros; b_dh += load(dht) when USE_DHT
BwdPrologue(cc, gg, u) ==
    [kj \in LanesK(cc) |-> [vj \in LanesV(gg.BV) |->
        IF gg.useDht
        THEN Load(gg.dht, p_KV(cc, gg.BV, u, kj, vj),
                  mask_k(cc, kj) /\ mask_v(cc, gg.BV, u, vj), gg.junk)
        ELSE 0]]

\* lines 237-242: b_h = zeros; b_h += load(h0) when USE_INITIAL_STATE
BwdPass2Prologue(cc, gg, u) ==
    [kj \in LanesK(cc) |-> [vj \in LanesV(gg.BV) |->
        IF cc.useH0
        THEN Load(cc.h0, p_KV(cc, gg.BV, u, kj, vj),
                  mask_k(cc, kj) /\ mask_v(cc, gg.BV, u, vj), 0)
        ELSE 0]]

\* lines 199-218: one iteration of the descending loop, at time step t, from the
\* adjoint block b_dh before it
BwdPass1(cc, gg, scale, ha, u, t, b_dh) ==
    LET bv == gg.BV
        b_qr == LoadK(cc, cc.q, u, t)
        b_q == [j \in LanesK(cc) |-> b_qr[j] * scale]
        b_k == LoadK(cc, cc.k, u, t)
        b_v == LoadV(cc, bv, cc.v, u, t)
        b_do == LoadV(cc, bv, gg.do, u, t)
        b_b == LoadK(cc, cc.b, u, t)
        b_a == LoadK(cc, cc.a, u, t)
        b_ha == LoadVJ(cc, bv, ha, u, t, gg.junk)
        dh1 == [kj \in LanesK(cc) |-> [vj \in LanesV(bv) |->
                   b_dh[kj][vj] + b_q[kj] * b_do[vj]]]
        d_k == [kj \in LanesK(cc) |->
                   SumTo([vj \in LanesV(bv) |-> dh1[kj][vj] * b_v[vj]], bv)]
        d_v == [vj \in LanesV(bv) |->
                   SumTo([kj \in LanesK(cc) |-> dh1[kj][vj] * b_k[kj]], BKof(cc))]
        b_dha == [vj \in LanesV(bv) |->
                   SumTo([kj \in LanesK(cc) |-> dh1[kj][vj] * b_b[kj]], BKof(cc))]
        b_db == [kj \in LanesK(cc) |->
                   SumTo([vj \in LanesV(bv) |-> dh1[kj][vj] * b_ha[vj]], bv)]
        dh2 == [kj \in LanesK(cc) |-> [vj \in LanesV(bv) |->
                   dh1[kj][vj] + b_dha[vj] * b_a[kj]]]
    IN  [b_dh |-> dh2, d_k |-> d_k, d_v |-> d_v, b_dha |-> b_dha, b_db |-> b_db]

\* Mutant of BwdPass2: da is computed after the step's update of the block.
BwdPass2_LateDa(cc, gg, scale, ha, dha, u, t, b_h) ==
    LET bv == gg.BV
        b_dha == LoadVJ(cc, bv, dha, u, t, gg.junk)
        b_k == LoadK(cc, cc.k, u, t)
        b_v == LoadV(cc, bv, cc.v, u, t)
        b_do == LoadV(cc, bv, gg.do, u, t)
        b_b == LoadK(cc, cc.b, u, t)
        b_ha == LoadVJ(cc, bv, ha, u, t, gg.junk)
        h2 == [kj \in LanesK(cc) |-> [vj \in LanesV(bv) |->
                   b_h[kj][vj] + (b_k[kj] * b_v[vj] + b_b[kj] * b_ha[vj])]]
        d_a == [kj \in LanesK(cc) |->
                   SumTo([vj \in LanesV(bv) |-> b_dha[vj] * h2[kj][vj]], bv)]
        d_q == [kj \in LanesK(cc) |->
                   SumTo([vj \in LanesV(bv) |-> h2[kj][vj] * b_do[vj]], bv) * scale]
    IN  [b_h |-> h2, d_a |-> d_a, d_q |-> d_q]

\* lines 254-265: one iteration of the ascending loop, at time step t, from the
\* rebuilt block b_h before it; dha is what pass 1 stored
BwdPass2(cc, gg, scale, ha, dha, u, t, b_h) ==
    LET bv == gg.BV
        b_dha == LoadVJ(cc, bv, dha, u, t, gg.junk)
        d_a == [kj \in LanesK(cc) |->
                   SumTo([vj \in LanesV(bv) |-> b_dha[vj] * b_h[kj][vj]], bv)]
        b_k == LoadK(cc, cc.k, u, t)
        b_v == LoadV(cc, bv, cc.v, u, t)
        b_do == LoadV(cc, bv, gg.do, u, t)
        b_b == LoadK(cc, cc.b, u, t)
        b_ha == LoadVJ(cc, bv, ha, u, t, gg.junk)
        h2 == [kj \in LanesK(cc) |-> [vj \in LanesV(bv) |->
                   b_h[kj][vj] + (b_k[kj] * b_v[vj] + b_b[kj] * b_ha[vj])]]
        d_q == [kj \in LanesK(cc) |->
                   SumTo([vj \in LanesV(bv) |-> h2[kj][vj] * b_do[vj]], bv) * scale]
    IN  [b_h |-> h2, d_a |-> d_a, d_q |-> d_q]

\* lines 199-214: the unmasked accesses of one pass-1 iteration
BwdPass1Accesses(cc, bv, u, t) ==
    AccK(cc, "q", u, t, 0) \cup AccK(cc, "k", u, t, 0) \cup AccK(cc, "b", u, t, 0)
    \cup AccK(cc, "a", u, t, 0) \cup AccV(cc, bv, "v", u, t)
    \cup AccV(cc, bv, "do", u, t) \cup AccV(cc, bv, "ha", u, t)
    \cup AccK(cc, "dk", u, t, Slab(cc, u)) \cup AccK(cc, "db", u, t, Slab(cc, u))
    \cup AccV(cc, bv, "dv", u, t) \cup AccV(cc, bv, "dha", u, t)

\* lines 254-265: the unmasked accesses of one pass-2 iteration
BwdPass2Accesses(cc, bv, u, t) ==
    AccK(cc, "k", u, t, 0) \cup AccK(cc, "b", u, t, 0) \cup AccV(cc, bv, "v", u, t)
    \cup AccV(cc, bv, "do", u, t) \cup AccV(cc, bv, "ha", u, t)
    \cup AccV(cc, bv, "dha", u, t)
    \cup AccK(cc, "da", u, t, Slab(cc, u)) \cup AccK(cc, "dq", u, t, Slab(cc, u))

\* lines 231-233: the map the dh0 store writes
BwdDh0Store(cc, bv, u, b_dh) ==
    [p \in {p_KV(cc, bv, u, kj, vj) :
                kj \in {l \in LanesK(cc) : mask_k(cc, l)},
                vj \in {l \in LanesV(bv) : mask_v(cc, bv, u, l)}} |->
        LET vj == ((p - i_nh(u) * cc.K * cc.V) % cc.V) - i_v(u) * bv
            kj == (p - i_nh(u) * cc.K * cc.V) \div cc.V
        IN  b_dh[kj][vj]]

\* A unit's position pos counts its iterations: the first Tloc are pass 1, at time
\* steps Tloc-1 down to 0; the next Tloc are pass 2, at time steps 0 up to Tloc-1.
\* The block a unit holds when pass 1 is over is the pass-2 block.
BwdUnitStart(cc, gg, u) ==
    [pos |-> 0,
     blk |-> IF Tloc(cc, u) = 0 THEN BwdPass2Prologue(cc, gg, u) ELSE BwdPrologue(cc, gg, u)]

\* the dh0 stores of the units in US whose time range is empty
RECURSIVE BwdEmptyUnits(_, _, _, _)
BwdEmptyUnits(cc, gg, US, dh0) ==
    IF US = {} THEN dh0
    ELSE LET u == CHOOSE x \in US : TRUE
         IN  BwdEmptyUnits(cc, gg, US \ {u},
                 IF Tloc(cc, u) = 0
                 THEN Store(dh0, BwdDh0Store(cc, gg.BV, u, BwdPrologue(cc, gg, u)))
                 ELSE dh0)

\* whether an unmasked load of the launch leaves dht
ReadsOutside(cc, bv, useDht, dht) ==
    /\ useDht
    /\ \E u \in (0..(cdiv(cc.V, bv) - 1)) \X (0..(NumSeq(cc) * cc.H - 1)) :
          \E r \in AccKV(cc, bv, "dht", u) : r.off \notin DOMAIN dht

\* what a load outside its tensor may return
JunkVals == {0, 1}

\* lines 334-353: the arguments of backward (do, and dht when a final state was
\* returned), the launch parameters and the allocations
BackwardCall ==
    /\ pc = "fwd_done"
    /\ chain.stage = "single"
    /\ LET bv == BwdBV(c)
           dht == IF c.outFinal
                  THEN FlatTensor(c.B * c.H * c.K * c.V, c.seed, 8) ELSE Empty
       IN  \E needsGrad \in (IF c.useH0 THEN BOOLEAN ELSE {FALSE}),
              junk \in (IF ReadsOutside(c, bv, c.outFinal, dht) THEN JunkVals ELSE {0}) :
               LET gg == [do |-> FlatTensor(c.B * c.T * c.H * c.V, c.seed, 7),
                          dht |-> dht, useDht |-> c.outFinal, useDh0 |-> needsGrad,
                          BV |-> bv, NV |-> cdiv(c.V, bv), junk |-> junk]
               IN  /\ g' = gg
                   /\ bregs' = [u \in Units(c, bv) |-> BwdUnitStart(c, gg, u)]
                   /\ gout' = [NoGout EXCEPT !.dh0 =
                                  IF needsGrad
                                  THEN BwdEmptyUnits(c, gg, Units(c, bv), Empty)
                                  ELSE Empty]
    /\ pc' = "bwd"
    /\ UNCHANGED <<fwdVars, chain, layerVars>>

\* one loop iteration of unit u of the backward launch; after the last iteration
\* of pass 1 the unit stores dh0 when USE_DH0 and loads the pass-2 block
BwdStep(u) ==
    /\ pc = "bwd"
    /\ bregs[u].pos < 2 * Tloc(c, u)
    /\ LET n == Tloc(c, u)
           pos == bregs[u].pos
       IN  IF pos < n
           THEN LET t == n - 1 - pos
                    r == BwdPass1(c, g, meta.scale, out.ha, u, t, bregs[u].blk)
                IN  /\ bregs' = [bregs EXCEPT ![u] =
                           [pos |-> pos + 1,
                            blk |-> IF pos + 1 = n THEN BwdPass2Prologue(c, g, u)
                                    ELSE r.b_dh]]
                    /\ gout' = [gout EXCEPT
                           !.dk = Store(@, StoreK(c, u, t, Slab(c, u), r.d_k)),
                           !.dv = Store(@, StoreV(c, g.BV, u, t, r.d_v)),
                           !.dha = Store(@, StoreV(c, g.BV, u, t, r.b_dha)),
                           !.db = Store(@, StoreK(c, u, t, Slab(c, u), r.b_db)),
                           !.dh0 = IF g.useDh0 /\ pos + 1 = n
                                   THEN Store(@, BwdDh0Store(c, g.BV, u, r.b_dh))
                                   ELSE @]
           ELSE LET t == pos - n
                    r == BwdPass2(c, g, meta.scale, out.ha, gout.dha, u, t, bregs[u].blk)
                IN  /\ bregs' = [bregs EXCEPT ![u] = [pos |-> pos + 1, blk |-> r.b_h]]
                    /\ gout' = [gout EXCEPT
                           !.da = Store(@, StoreK(c, u, t, Slab(c, u), r.d_a)),
                           !.dq = Store(@, StoreK(c, u, t, Slab(c, u), r.d_q))]
    /\ UNCHANGED <<pc, g, fwdVars, chain, layerVars>>

\* lines 382-385: dq.sum(0) over the NV slabs of a [NV, B, T, H, K] buffer
SumSlabs(cc, gg, buf) ==
    [i \in 0..(cc.B * cc.T * cc.H * cc.K - 1) |->
        SumTo([iv \in 0..(gg.NV - 1) |->
                  Load(buf, iv * cc.B * cc.T * cc.H * cc.K + i, TRUE, gg.junk)], gg.NV)]

\* the whole of an allocation of n elements, unwritten elements read as junk
Whole(buf, n, junk) == [i \in 0..(n - 1) |-> Load(buf, i, TRUE, junk)]

\* lines 382-386: the launch is over; backward returns dq, dk, dv, da, db, dh0
BwdReturn ==
    /\ pc = "bwd"
    /\ \A u \in DOMAIN bregs : bregs[u].pos = 2 * Tloc(c, u)
    /\ gout' = [gout EXCEPT !.ret =
                   [dq |-> SumSlabs(c, g, gout.dq), dk |-> SumSlabs(c, g, gout.dk),
                    da |-> SumSlabs(c, g, gout.da), db |-> SumSlabs(c, g, gout.db),
                    dv |-> Whole(gout.dv, c.B * c.T * c.H * c.V, g.junk),
                    dh0 |-> IF g.useDh0
                            THEN Whole(gout.dh0, c.h0N * c.H * c.K * c.V, g.junk)
                            ELSE Empty]]
    /\ pc' = "bwd_done"
    /\ UNCHANGED <<g, bregs, fwdVars, chain, layerVars>>

\* ------------------------------------------------- a sequence in two calls
\* x[:, t0:t1] of a [B, T, H, D] tensor, made contiguous
SliceT(buf, cc, D, t0, t1) ==
    [i \in 0..(cc.B * (t1 - t0) * cc.H * D - 1) |->
        LET b == i \div ((t1 - t0) * cc.H * D)
            r == i % ((t1 - t0) * cc.H * D)
        IN  buf[(b * cc.T + t0) * cc.H * D + r]]

\* the call on time steps t0..t1-1 of the fixed-length call cc, with the initial
\* state h0 (Empty: none) and a final state requested
SliceCall(cc, t0, t1, useH0, h0) ==
    [cc EXCEPT !.T = t1 - t0,
               !.q = SliceT(cc.q, cc, cc.K, t0, t1),
               !.k = SliceT(cc.k, cc, cc.K, t0, t1),
               !.v = SliceT(cc.v, cc, cc.V, t0, t1),
               !.a = SliceT(cc.a, cc, cc.K, t0, t1),
               !.b = SliceT(cc.b, cc, cc.K, t0, t1),
               !.useH0 = useH0, !.h0 = h0, !.h0N = IF useH0 THEN cc.B ELSE 0,
               !.outFinal = TRUE]

\* After a fixed-length call without initial state has returned its outputs and
\* final state, the caller runs the first T1 steps of the same sequence alone.
SplitCall ==
    /\ pc = "fwd_done"
    /\ chain.stage = "single"
    /\ ~c.varlen /\ ~c.useH0 /\ c.outFinal
    /\ \E T1 \in 0..c.T :
          /\ chain' = [stage |-> "part1", T1 |-> T1, o1 |-> Empty,
                       whole |-> [c |-> c, o |-> out.o,
                                  ht |-> Whole(out.ht, meta.htSize, 0)]]
          /\ c' = SliceCall(c, 0, T1, FALSE, Empty)
    /\ pc' = "call"
    /\ meta' = NoMeta
    /\ out' = NoOut
    /\ UNCHANGED <<regs, err, bwdVars, layerVars>>

\* The caller runs the remaining steps with initial_state set to the final state
\* the first call returned.
SecondCall ==
    /\ pc = "fwd_done"
    /\ chain.stage = "part1"
    /\ chain' = [chain EXCEPT !.stage = "part2", !.o1 = out.o]
    /\ c' = SliceCall(chain.whole.c, chain.T1, chain.whole.c.T, TRUE,
                      Whole(out.ht, meta.htSize, 0))
    /\ pc' = "call"
    /\ meta' = NoMeta
    /\ out' = NoOut
    /\ UNCHANGED <<regs, err, bwdVars, layerVars>>

\* ============================================ GatedSlotAttention (gsa.py)
\* A position of hidden_states is represented by its token, a number that names
\* it; the per-position maps of the layer (projections, feature map, silu, gate,
\* output norm and projection) keep the position and are left out.  A state or an
\* output is represented by the sequence of tokens that have entered it.

\* line 145: the length up to which the fused recurrent engine is forced
SeqThreshold == 64

MaxBatch == 2
MaxQ == 2
MaxForward == 2

\* the feature maps __init__ knows (lines 90-95) and the modes forward knows
\* (lines 200, 212)
FeatureMaps == {"swish", "relu", "t2r"}

EngineModes == {"fused_recurrent", "chunk"}

\* lines 52, 89-97: GatedSlotAttention.__init__; mode is stored unchecked
Init__(mode, feature_map, use_short_conv) ==
    IF feature_map \in FeatureMaps
    THEN [err |-> "",
          self |-> [mode |-> mode, feature_map |-> feature_map,
                    use_short_conv |-> use_short_conv]]
    ELSE [err |-> "NotImplementedError: feature map", self |-> NoLayer]

\* rearrange(x, "b s ... -> (b s) ...")
Flatten(x, batch_size, q_len) ==
    [i \in 1..(batch_size * q_len) |-> x[((i - 1) \div q_len) + 1][((i - 1) % q_len) + 1]]

\* Mutant of MaskWindow: the first q_len columns, attention_mask[:, :q_len]
MaskWindow_Leading(m, q_len) ==
    [b \in 1..Len(m) |-> SubSeq(m[b], 1, q_len)]

\* line 153: attention_mask[:, -q_len:]
MaskWindow(m, q_len) ==
    [b \in 1..Len(m) |-> SubSeq(m[b], Len(m[b]) - q_len + 1, Len(m[b]))]

\* get_unpad_data: the flat indices of the ones of the mask, row by row, and the
\* cumulative number of ones before each row
get_unpad_data(m) ==
    LET B == Len(m)
        L == IF B = 0 THEN 0 ELSE Len(m[1])
        One(i) == m[((i - 1) \div L) + 1][((i - 1) % L) + 1] = 1
    IN  [indices |-> SelectSeq([i \in 1..(B * L) |-> i], One),
         cu_seqlens |-> [n \in 1..(B + 1) |->
                            Cardinality({i \in 1..((n - 1) * L) : One(i)})]]

\* index_first_axis: the rows of x the indices name, in their order
index_first_axis(x, indices) == [i \in 1..Len(indices) |-> x[indices[i]]]

\* pad_input: a [batch_size, q_len] tensor of zeros (the empty sequence) with
\* row i of o at flat position indices[i]
pad_input(o, indices, batch_size, q_len) ==
    [b \in 1..batch_size |-> [t \in 1..q_len |->
        LET I == {i \in 1..Len(indices) : indices[i] = (b - 1) * q_len + t}
        IN  IF I = {} THEN <<>> ELSE o[CHOOSE i \in I : TRUE]]]

\* the number of sequences an engine call works on
GsaSegments(x, cu_seqlens) == IF cu_seqlens = <<>> THEN Len(x) ELSE Len(cu_seqlens) - 1

\* the first and last position (from 1) of sequence n in its row
GsaFirst(cu_seqlens, n) == IF cu_seqlens = <<>> THEN 1 ELSE cu_seqlens[n] + 1

GsaLast(x, cu_seqlens, n) == IF cu_seqlens = <<>> THEN Len(x[n]) ELSE cu_seqlens[n + 1]

GsaRow(cu_seqlens, n) == IF cu_seqlens = <<>> THEN n ELSE 1

\* fused_recurrent_gsa and chunk_gsa: a causal recurrence per sequence.  The
\* state of a sequence after a position holds the initial state and every position
\* of the sequence up to it; the output at a position is read from that state.
GsaEngine(x, cu_seqlens, initial_state, output_final_state) ==
    LET N == GsaSegments(x, cu_seqlens)
        S0(n) == IF initial_state = <<>> THEN <<>> ELSE initial_state[n]
        SegOf(b, t) == IF cu_seqlens = <<>> THEN b
                       ELSE CHOOSE n \in 1..N : cu_seqlens[n] < t /\ t <= cu_seqlens[n + 1]
    IN  [o |-> [b \in 1..Len(x) |-> [t \in 1..Len(x[b]) |->
                   S0(SegOf(b, t)) \o SubSeq(x[b], GsaFirst(cu_seqlens, SegOf(b, t)), t)]],
         final_state |->
             IF output_final_state
             THEN [n \in 1..N |->
                      S0(n) \o SubSeq(x[GsaRow(cu_seqlens, n)], GsaFirst(cu_seqlens, n),
                                      GsaLast(x, cu_seqlens, n))]
             ELSE <<>>]

\* ShortConvolution: the convolution state of each sequence after the call (the
\* cached one extended by the sequence); None unless output_final_state
ShortConvolution(x, cache, output_final_state, cu_seqlens) ==
    IF output_final_state
    THEN [n \in 1..GsaSegments(x, cu_seqlens) |->
             (IF cache = <<>> THEN <<>> ELSE cache[n])
             \o SubSeq(x[GsaRow(cu_seqlens, n)], GsaFirst(cu_seqlens, n),
                       GsaLast(x, cu_seqlens, n))]
    ELSE <<>>

\* Cache.update(recurrent_state, conv_state, layer_idx, offset) for layer 0:
\* the layer's entry is appended or replaced and the offset advances
CacheUpdate(cache, recurrent_state, conv_state, offset) ==
    [states |-> << [recurrent_state |-> recurrent_state, conv_state |-> conv_state] >>,
     seen |-> cache.seen + offset]

\* Mutant of DispatchMode: the threshold itself is excluded.
DispatchMode_Strict(self, q_len) ==
    IF q_len < SeqThreshold THEN "fused_recurrent" ELSE self.mode

\* line 145: mode = 'fused_recurrent' if hidden_states.shape[1] <= 64 else self.mode
DispatchMode(self, q_len) ==
    IF q_len <= SeqThreshold THEN "fused_recurrent" ELSE self.mode

\* lines 137-240: GatedSlotAttention.forward on the arguments a with the cache
\* object cache (passed as past_key_values when a.with_cache)
forward(self, a, cache) ==
    LET mode == DispatchMode(self, a.q_len)
        hasLast == a.with_cache /\ Len(cache.states) > 0
        masked == a.attention_mask.rank # 0
        unpad == get_unpad_data(MaskWindow(a.attention_mask.m, a.q_len))
        cu_seqlens == IF masked THEN unpad.cu_seqlens ELSE a.cu_seqlens
        hidden_states ==
            IF masked
            THEN << index_first_axis(Flatten(a.hidden_states, a.batch_size, a.q_len),
                                     unpad.indices) >>
            ELSE a.hidden_states
        conv_state ==
            IF self.use_short_conv
            THEN ShortConvolution(hidden_states,
                                  IF hasLast THEN cache.states[1].conv_state ELSE <<>>,
                                  a.use_cache, cu_seqlens)
            ELSE <<>>
        recurrent_state == IF hasLast THEN cache.states[1].recurrent_state ELSE <<>>
        r == GsaEngine(hidden_states, cu_seqlens, recurrent_state, a.use_cache)
    IN  IF a.attention_mask.rank \notin {0, 2}
        THEN [err |-> "AssertionError: attention_mask", calls |-> <<>>,
              cache |-> cache, o |-> Empty]
        ELSE IF mode \notin EngineModes
        THEN [err |-> "NotImplementedError: mode", calls |-> <<>>,
              cache |-> cache, o |-> Empty]
        ELSE [err |-> "",
              calls |-> << [engine |-> mode, q |-> hidden_states,
                            initial_state |-> recurrent_state,
                            output_final_state |-> a.use_cache,
                            cu_seqlens |-> cu_seqlens] >>,
              cache |-> IF a.with_cache
                        THEN CacheUpdate(cache, r.final_state, conv_state, a.q_len)
                        ELSE cache,
              o |-> IF masked
                    THEN pad_input(r.o[1], unpad.indices, a.batch_size, a.q_len)
                    ELSE r.o]

\* the hidden states of forward call number n: every position its own token
Tokens(n, batch_size, q_len) ==
    [b \in 1..batch_size |-> [t \in 1..q_len |-> n * 1000 + (b - 1) * q_len + t]]

\* attention masks over len columns: None, a rank-3 mask, and 0/1 matrices (all of
\* them for short inputs; all ones and one leading zero for long ones)
Masks(batch_size, len) ==
    {NoMask, [rank |-> 3, m |-> <<>>]}
    \cup {[rank |-> 2, m |-> m] : m \in
            IF batch_size * len <= MaxBatch * MaxQ
            THEN [1..batch_size -> [1..len -> {0, 1}]]
            ELSE {[b \in 1..batch_size |-> [t \in 1..len |-> 1]],
                  [b \in 1..batch_size |-> [t \in 1..len |-> IF t = 1 THEN 0 ELSE 1]]}}

\* the arguments of a first forward call
FirstCalls ==
    {[batch_size |-> B, q_len |-> L, hidden_states |-> Tokens(1, B, L),
      attention_mask |-> am, use_cache |-> uc, with_cache |-> wc, cu_seqlens |-> cu] :
        B \in 1..MaxBatch, L \in (1..MaxQ) \cup {SeqThreshold, SeqThreshold + 1},
        am \in UNION {Masks(b, l) : b \in 1..MaxBatch,
                                    l \in (1..MaxQ) \cup {SeqThreshold, SeqThreshold + 1}},
        uc \in BOOLEAN, wc \in BOOLEAN,
        cu \in {<<>>} \cup {<<0, l>> : l \in {SeqThreshold + 1}}
               \cup {<<0, 1, l>> : l \in 1..MaxQ}}

FirstCallOk(a) ==
    /\ a.q_len > MaxQ => a.batch_size = 1
    /\ a.attention_mask.rank = 2 =>
          /\ Len(a.attention_mask.m) = a.batch_size
          /\ Len(a.attention_mask.m[1]) = a.q_len
    /\ a.cu_seqlens # <<>> =>
          /\ a.batch_size = 1
          /\ a.cu_seqlens[Len(a.cu_seqlens)] = a.q_len
          /\ a.attention_mask.rank = 0

\* GatedSlotAttention(mode, feature_map, use_short_conv) before construction
LayerInit ==
    /\ pc = "new"
    /\ gsa \in {x \in [mode : EngineModes \cup {"bogus"},
                        feature_map : FeatureMaps \cup {"bogus"},
                        use_short_conv : BOOLEAN] :
                    x.feature_map = "swish" \/ (x.mode = "chunk" /\ ~x.use_short_conv)}
    /\ args = NoArgs
    /\ past_key_values = EmptyCache
    /\ calls = <<>>
    /\ ret = Empty
    /\ forwards = 0
    /\ c = NoCall
    /\ meta = NoMeta
    /\ regs = <<>>
    /\ out = NoOut
    /\ err = ""
    /\ g = NoGrad
    /\ bregs = <<>>
    /\ gout = NoGout
    /\ chain = NoChain

engineVars == <<c, meta, regs, out, g, bregs, gout, chain>>

\* __init__ runs: the object exists, or the constructor has raised
Construct ==
    /\ pc = "new"
    /\ LET r == Init__(gsa.mode, gsa.feature_map, gsa.use_short_conv)
       IN  \/ /\ r.err # ""
              /\ pc' = "init_raised"
              /\ err' = r.err
              /\ UNCHANGED gsa
           \/ /\ r.err = ""
              /\ pc' = "built"
              /\ gsa' = r.self
              /\ UNCHANGED err
    /\ UNCHANGED <<engineVars, args, past_key_values, calls, ret, forwards>>

\* one whole forward call on the arguments a
ForwardCall(a) ==
    LET r == forward(gsa, a, past_key_values)
    IN  /\ args' = [cache |-> past_key_values] @@ a
        /\ forwards' = forwards + 1
        /\ calls' = r.calls
        /\ past_key_values' = r.cache
        /\ ret' = r.o
        /\ err' = r.err
        /\ pc' = IF r.err = "" THEN "layer_done" ELSE "layer_raised"
        /\ UNCHANGED <<engineVars, gsa>>

\* the first forward call of the layer
Forward ==
    /\ pc = "built"
    /\ \E a \in {x \in FirstCalls : FirstCallOk(x)} : ForwardCall(a)

\* a decoding step after a forward call that was given the cache: one new
\* position per row, the same cache object, a mask (if any) over all positions
\* seen so far
Decode ==
    /\ pc = "layer_done"
    /\ forwards < MaxForward
    /\ args.with_cache
    /\ args.cu_seqlens = <<>>
    /\ \E am \in Masks(args.batch_size, args.q_len + 1), uc \in BOOLEAN :
          /\ am.rank = 3 => uc
          /\ ForwardCall([batch_size |-> args.batch_size, q_len |-> 1,
                          hidden_states |-> Tokens(forwards + 1, args.batch_size, 1),
                          attention_mask |-> am, use_cache |-> uc,
                          with_cache |-> TRUE, cu_seqlens |-> <<>>])

Init == EngineInit \/ LayerInit

Next ==
    \/ Call
    \/ \E u \in DOMAIN regs : FwdStep(u)
    \/ FwdReturn
    \/ BackwardCall
    \/ \E u \in DOMAIN bregs : BwdStep(u)
    \/ BwdReturn
    \/ SplitCall
    \/ SecondCall
    \/ Construct
    \/ Forward
    \/ Decode

Spec == Init /\ [][Next]_vars

\* ------------------------------------------------ the recurrence, by index
\* Element [pos, h, x] of a [B*T, H, D] tensor; pos counts time positions of the
\* flattened batch.
At3(buf, cc, D, pos, h, x) == buf[(pos * cc.H + h) * D + x]

\* First position of sequence n: the n-th batch row, or the n-th segment.
SeqStart(cc, n) == IF cc.varlen THEN cc.cu[n + 1] ELSE n * cc.T

SeqLen(cc, n) == IF cc.varlen THEN cc.cu[n + 2] - cc.cu[n + 1] ELSE cc.T

\* S_0[v][k] of sequence n, head h: the supplied initial state or zero
RefS0(cc, n, h) ==
    [vv \in 0..(cc.V - 1) |-> [kk \in 0..(cc.K - 1) |->
        IF cc.useH0 THEN cc.h0[((n * cc.H + h) * cc.K + kk) * cc.V + vv] ELSE 0]]

\* tmp_t = S_{t-1} . a_t, for t in 1..SeqLen, given S_{t-1}
RefTmp(cc, n, h, t, S) ==
    [vv \in 0..(cc.V - 1) |->
        SumTo([kk \in 0..(cc.K - 1) |->
                  S[vv][kk] * At3(cc.a, cc, cc.K, SeqStart(cc, n) + t - 1, h, kk)], cc.K)]

\* S_t = S_{t-1} + outer(tmp_t, b_t) + outer(v_t, k_t); S_0 as above
RECURSIVE RefS(_, _, _, _)
RefS(cc, n, h, t) ==
    IF t = 0 THEN RefS0(cc, n, h)
    ELSE LET S == RefS(cc, n, h, t - 1)
             tmp == RefTmp(cc, n, h, t, S)
             pos == SeqStart(cc, n) + t - 1
         IN  [vv \in 0..(cc.V - 1) |-> [kk \in 0..(cc.K - 1) |->
                 S[vv][kk] + tmp[vv] * At3(cc.b, cc, cc.K, pos, h, kk)
                           + At3(cc.v, cc, cc.V, pos, h, vv) * At3(cc.k, cc, cc.K, pos, h, kk)]]

\* o_t = S_t . (q_t * scale)
RefO(cc, scale, n, h, t) ==
    LET S == RefS(cc, n, h, t)
    IN  [vv \in 0..(cc.V - 1) |->
            SumTo([kk \in 0..(cc.K - 1) |->
                      S[vv][kk] * (At3(cc.q, cc, cc.K, SeqStart(cc, n) + t - 1, h, kk) * scale)],
                  cc.K)]

\* the unit that owns value index vv of sequence n, head h
UnitOf(cc, bv, n, h, vv) == <<vv \div bv, n * cc.H + h>>

Launched == pc \in {"fwd", "fwd_done", "bwd", "bwd_done"}

\* the number of time steps of sequence n, head h done for value index vv
StepsDone(n, h, vv) ==
    IF pc = "fwd" THEN regs[UnitOf(c, meta.BV, n, h, vv)].t ELSE SeqLen(c, n)

RefFinal(cc, p) ==
    LET n == p \div (cc.H * cc.K * cc.V)
        h == (p \div (cc.K * cc.V)) % cc.H
        kk == (p \div cc.V) % cc.K
        vv == p % cc.V
    IN  RefS(cc, n, h, SeqLen(cc, n))[vv][kk]

\* L = sum(do * o) + sum(dht * S_T) of the inputs cc
Loss(cc, scale, gg) ==
    SumTo([idx \in 0..(cc.B * cc.T * cc.H * cc.V - 1) |->
              LET pos == idx \div (cc.H * cc.V)
                  h == (idx \div cc.V) % cc.H
                  vv == idx % cc.V
                  n == CHOOSE m \in 0..(NumSeq(cc) - 1) :
                           pos \in SeqStart(cc, m)..(SeqStart(cc, m) + SeqLen(cc, m) - 1)
              IN  gg.do[idx] * RefO(cc, scale, n, h, pos - SeqStart(cc, n) + 1)[vv]],
          cc.B * cc.T * cc.H * cc.V)
    + (IF gg.useDht
       THEN SumTo([p \in 0..(cc.B * cc.H * cc.K * cc.V - 1) |-> gg.dht[p] * RefFinal(cc, p)],
                  cc.B * cc.H * cc.K * cc.V)
       ELSE 0)

\* the inputs with element i of tensor name raised by one
Perturb(cc, name, i) == [cc EXCEPT ![name][i] = @ + 1]

\* the change of L under a unit perturbation of every element of tensor name
\* equals the returned gradient grad
GradMatches(name, grad) ==
    \A i \in DOMAIN c[name] :
        grad[i] = Loss(Perturb(c, name, i), meta.scale, g) - Loss(c, meta.scale, g)

\* C2: when backward has returned, the gradient of every element of q, k, v, a, b
\* (and of the initial state when it requires one) equals L(x + e) - L(x) for the
\* unit perturbation e of that element, L = sum(do*o) + sum(dht*S_T).
C2_GradientCheck ==
    pc = "bwd_done" =>
        /\ GradMatches("q", gout.ret.dq)
        /\ GradMatches("k", gout.ret.dk)
        /\ GradMatches("v", gout.ret.dv)
        /\ GradMatches("a", gout.ret.da)
        /\ GradMatches("b", gout.ret.db)
        /\ g.useDh0 => GradMatches("h0", gout.ret.dh0)

\* the same, for the calls in which no load of the backward launch leaves dht
C2_GradientCheckInside ==
    (pc = "bwd_done" /\ ~ReadsOutside(c, g.BV, g.useDht, g.dht)) => C2_GradientCheck

\* ------------------------------------------------------ chunking equivalence
\* C3: when the second call has returned, for every batch row, head and value
\* index the outputs of the two calls, concatenated along time, are the outputs
\* of the one call on the whole sequence, and the second call's final state is
\* the whole-sequence final state.
C3_StateCarry ==
    (pc = "fwd_done" /\ chain.stage = "part2") =>
        LET w == chain.whole.c
            T1 == chain.T1
            T2 == w.T - T1
        IN  /\ \A b \in 0..(w.B - 1), t \in 0..(w.T - 1), h \in 0..(w.H - 1),
                  vv \in 0..(w.V - 1) :
                   LET i == ((b * w.T + t) * w.H + h) * w.V + vv
                       i1 == ((b * T1 + t) * w.H + h) * w.V + vv
                       i2 == ((b * T2 + (t - T1)) * w.H + h) * w.V + vv
                   IN  IF t < T1
                       THEN i1 \in DOMAIN chain.o1 /\ chain.o1[i1] = chain.whole.o[i]
                       ELSE i2 \in DOMAIN out.o /\ out.o[i2] = chain.whole.o[i]
            /\ Whole(out.ht, meta.htSize, 0) = chain.whole.ht

\* a sequence of two steps split in the middle, whose carried state and whose
\* second-half output are not zero
C3_Witness ==
    /\ pc = "fwd_done" /\ chain.stage = "part2"
    /\ chain.T1 = 1 /\ chain.whole.c.T = 2
    /\ \E p \in DOMAIN c.h0 : c.h0[p] # 0
    /\ \E p \in DOMAIN out.o : out.o[p] # 0

\* ------------------------------------------------------- segment isolation
\* the call on segment n of the packed call cc alone: one batch row holding the
\* segment's time steps, with the segment's own initial state
SegCall(cc, n) ==
    LET t0 == cc.cu[n + 1]
        t1 == cc.cu[n + 2]
        KV == cc.H * cc.K * cc.V
    IN  [cc EXCEPT !.varlen = FALSE, !.cu = <<>>, !.T = t1 - t0,
                   !.q = SliceT(cc.q, cc, cc.K, t0, t1),
                   !.k = SliceT(cc.k, cc, cc.K, t0, t1),
                   !.v = SliceT(cc.v, cc, cc.V, t0, t1),
                   !.a = SliceT(cc.a, cc, cc.K, t0, t1),
                   !.b = SliceT(cc.b, cc, cc.K, t0, t1),
                   !.h0 = IF cc.useH0 THEN [i \in 0..(KV - 1) |-> cc.h0[n * KV + i]]
                          ELSE Empty,
                   !.h0N = IF cc.useH0 THEN 1 ELSE 0]

\* the time loop of unit u from step t on, collecting the output stores
RECURSIVE FwdUnitRun(_, _, _, _, _, _, _)
FwdUnitRun(cc, bv, scale, u, t, b_h, o) ==
    IF t >= Tloc(cc, u) THEN o
    ELSE LET r == FwdIteration(cc, bv, scale, u, t, b_h)
         IN  FwdUnitRun(cc, bv, scale, u, t + 1, r.b_h,
                        Store(o, StoreV(cc, bv, u, t, r.b_o)))

\* the output buffer after all units in US have run
RECURSIVE FwdRun(_, _, _, _, _)
FwdRun(cc, bv, scale, US, o) ==
    IF US = {} THEN o
    ELSE LET u == CHOOSE x \in US : TRUE
         IN  FwdRun(cc, bv, scale, US \ {u},
                    FwdUnitRun(cc, bv, scale, u, 0, FwdPrologue(cc, bv, u), o))

\* C4: when a call with cu_seqlens has returned, the outputs at the positions of
\* each segment are the outputs of a call on that segment alone (with the
\* segment's initial state, whatever block width that call is tuned to): no
\* state crosses a segment boundary.
C4_SegmentIsolation ==
    (pc = "fwd_done" /\ c.varlen) =>
        \A n \in 0..(meta.N - 1), bv \in BVConfigs :
            LET sc == SegCall(c, n)
                alone == FwdRun(sc, bv, meta.scale, Units(sc, bv), Empty)
            IN  \A t \in 0..(sc.T - 1), h \in 0..(c.H - 1), vv \in 0..(c.V - 1) :
                    LET i == ((c.cu[n + 1] + t) * c.H + h) * c.V + vv
                        j == (t * c.H + h) * c.V + vv
                    IN  /\ i \in DOMAIN out.o /\ j \in DOMAIN alone
                        /\ out.o[i] = alone[j]

\* two non-empty segments with initial states, the second one's output not zero
C4_Witness ==
    /\ pc = "fwd_done" /\ c.varlen /\ c.useH0
    /\ c.cu = <<0, 1, 2>>
    /\ \E p \in DOMAIN c.h0 : c.h0[p] # 0
    /\ \E h \in 0..(c.H - 1), vv \in 0..(c.V - 1) : out.o[(c.H + h) * c.V + vv] # 0

\* ---------------------------------------------------------- masked accesses
\* the number of elements of each tensor of a call and of its backward launch
\* (lines 302, 308, 342-351)
BufSize(cc, NV, name) ==
    IF name \in {"q", "k", "a", "b"} THEN cc.B * cc.T * cc.H * cc.K
    ELSE IF name \in {"v", "o", "ha", "do", "dv", "dha"} THEN cc.B * cc.T * cc.H * cc.V
    ELSE IF name \in {"dq", "dk", "da", "db"} THEN NV * cc.B * cc.T * cc.H * cc.K
    ELSE cc.h0N * cc.H * cc.K * cc.V

\* the access x stays inside its tensor, on a lane whose key index is below K and
\* whose value index is below V, and it addresses the element of that index
InBounds(cc, NV, x) ==
    /\ x.off >= 0 /\ x.off < BufSize(cc, NV, x.buf)
    /\ x.ki < cc.K /\ x.vi < cc.V
    /\ IF x.buf \in {"q", "k", "a", "b", "dq", "dk", "da", "db"} THEN x.off % cc.K = x.ki
       ELSE IF x.buf = "dh0" THEN x.off % cc.V = x.vi /\ (x.off \div cc.V) % cc.K = x.ki
       ELSE x.off % cc.V = x.vi

RECURSIVE Kept(_, _, _)
Kept(row, mrow, t) ==
    IF t = 0 THEN <<>>
    ELSE Kept(row, mrow, t - 1) \o (IF mrow[t] = 1 THEN <<row[t]>> ELSE <<>>)

\* the kept tokens of the first n rows, one row after the other
RECURSIVE Packed(_, _, _)
Packed(x, m, n) ==
    IF n = 0 THEN <<>> ELSE Packed(x, m, n - 1) \o Kept(x[n], m[n], Len(x[n]))

\* the mask over the positions of the call: its last q_len columns
CallMask ==
    [b \in 1..args.batch_size |-> [t \in 1..args.q_len |->
        args.attention_mask.m[b][Len(args.attention_mask.m[b]) - args.q_len + t]]]

Range(f) == {f[i] : i \in DOMAIN f}

\* C5: when a forward call with a 0/1 mask of shape [batch, time] has returned,
\* the engine was given one row holding exactly the positions whose mask is 1,
\* row after row, with cu_seqlens at the row boundaries; the returned output
\* has at every valid position the output of that position (its row's earlier
\* state and the valid positions of its row up to it) and zero elsewhere; the
\* states written to the cache hold no masked position; and with an all-ones
\* mask the output is the output without the mask.
C5_MaskedPacking ==
    (pc = "layer_done" /\ args.attention_mask.rank = 2) =>
        LET x == args.hidden_states
            m == CallMask
            B == args.batch_size
            call == calls[1]
            prev(b) == IF call.initial_state = <<>> THEN <<>> ELSE call.initial_state[b]
        IN  /\ Len(calls) = 1
            /\ call.q = << Packed(x, m, B) >>
            /\ call.cu_seqlens = [n \in 1..(B + 1) |-> Len(Packed(x, m, n - 1))]
            /\ \A b \in 1..B, t \in 1..args.q_len :
                  ret[b][t] = IF m[b][t] = 1 THEN prev(b) \o Kept(x[b], m[b], t) ELSE <<>>
            /\ (args.with_cache /\ args.use_cache) =>
                  LET e == past_key_values.states[1]
                  IN  \A b \in 1..B, t \in 1..args.q_len :
                          m[b][t] = 0 =>
                              /\ x[b][t] \notin Range(e.recurrent_state[b])
                              /\ e.conv_state # <<>> => x[b][t] \notin Range(e.conv_state[b])
            /\ (\A b \in 1..B, t \in 1..args.q_len : m[b][t] = 1) =>
                  ret = GsaEngine(x, <<>>, call.initial_state, args.use_cache).o

\* two rows of two positions, the first row left-padded by one position, with the
\* states written to the cache
C5_Witness ==
    /\ pc = "layer_done" /\ args.attention_mask.rank = 2
    /\ args.attention_mask.m = << <<0, 1>>, <<1, 1>> >>
    /\ args.q_len = 2
    /\ args.with_cache /\ args.use_cache /\ gsa.use_short_conv
    /\ ret[1][1] = <<>> /\ ret[1][2] # <<>>

\* ------------------------------------------------------- contract violations
\* what the engine's contract forbids: cu_seqlens with a batch dimension other
\* than 1, cu_seqlens with an initial state count other than the number of
\* segments, a scale that is given and not positive
ContractViolation(cc) ==
    \/ cc.varlen /\ cc.B # 1
    \/ cc.varlen /\ cc.useH0 /\ cc.h0N # Len(cc.cu) - 1
    \/ ~cc.scaleNone /\ cc.scale <= 0

\* C6: no call of fused_recurrent_iplr_delta_rule that violates the contract
\* reaches a launch, and a call that raised has allocated and written nothing;
\* no forward call with an attention mask of rank other than 2 returns, and one
\* that raised has invoked no engine, returned no output and left the cache as
\* it was.
C6_ContractViolationsFailFast ==
    /\ pc \in {"fwd", "fwd_done", "bwd", "bwd_done"} => ~ContractViolation(c)
    /\ (pc = "call" /\ ContractViolation(c)) => CallError(c) # ""
    /\ pc = "raised" =>
          /\ ContractViolation(c) /\ err # ""
          /\ meta = NoMeta /\ regs = <<>> /\ out = NoOut /\ gout = NoGout
    /\ pc = "layer_done" => args.attention_mask.rank \in {0, 2}
    /\ (pc = "layer_raised" /\ args.attention_mask.rank \notin {0, 2}) =>
          /\ err # ""
          /\ calls = <<>> /\ ret = Empty /\ past_key_values = args.cache

\* a call with two segments and three initial states has raised
C6_Witness ==
    /\ pc = "raised"
    /\ c.varlen /\ c.B = 1 /\ c.useH0
    /\ Len(c.cu) = 3 /\ c.h0N = 3
    /\ ~c.scaleNone /\ c.scale > 0
    /\ err = "ValueError: number of initial states"

\* -------------------------------------------------------- configuration errors
\* C7: an object with an unsupported feature map is never constructed, and no
\* forward call (with a well-formed mask) of an object with an unsupported mode
\* returns: it raises NotImplementedError with no engine invoked and the cache
\* as it was, whatever the sequence length.
C7_ConfigErrorsFailFast ==
    /\ pc \in {"built", "layer_done", "layer_raised"} => gsa.feature_map \in FeatureMaps
    /\ (/\ pc \in {"layer_done", "layer_raised"}
        /\ gsa.mode \notin EngineModes
        /\ args.attention_mask.rank \in {0, 2}) =>
          /\ pc = "layer_raised"
          /\ err = "NotImplementedError: mode"
          /\ calls = <<>> /\ past_key_values = args.cache

\* C7, the part the program keeps: an unsupported feature map raises in the
\* constructor, and an unsupported mode raises before the cache is updated when
\* the input is longer than the threshold.
C7_LongInputsFailFast ==
    /\ pc \in {"built", "layer_done", "layer_raised"} => gsa.feature_map \in FeatureMaps
    /\ (/\ pc \in {"layer_done", "layer_raised"}
        /\ gsa.mode \notin EngineModes
        /\ args.attention_mask.rank \in {0, 2}
        /\ args.q_len > SeqThreshold) =>
          /\ pc = "layer_raised"
          /\ err = "NotImplementedError: mode"
          /\ calls = <<>> /\ past_key_values = args.cache

\* ------------------------------------------------------------------ dispatch
\* C8: a forward call that has returned has invoked exactly one engine: the fused
\* recurrent one when the input length is at most 64, the one the configured
\* mode names when it is longer; a forward call that raised has invoked none.
C8_Dispatch ==
    /\ pc = "layer_done" =>
          /\ Len(calls) = 1
          /\ calls[1].engine =
                 IF args.q_len <= SeqThreshold THEN "fused_recurrent" ELSE gsa.mode
          /\ calls[1].engine \in EngineModes
    /\ pc = "layer_raised" => calls = <<>>

\* an input of exactly 64 positions under mode chunk went to the fused recurrent
\* engine
C8_Witness ==
    /\ pc = "layer_done"
    /\ args.q_len = SeqThreshold /\ gsa.mode = "chunk"
    /\ Len(calls) = 1 /\ calls[1].engine = "fused_recurrent"

\* ------------------------------------------------------- unit independence
\* the elements (buffer, offset) of a set of accesses
Addr(S) == {<<x.buf, x.off>> : x \in S}

\* everything unit u of the forward launch stores (lines 88-89, 98-100)
FwdWrites(cc, bv, u) ==
    UNION {Addr(AccV(cc, bv, "o", u, t) \cup AccV(cc, bv, "ha", u, t)) :
              t \in 0..(Tloc(cc, u) - 1)}
    \cup (IF cc.outFinal THEN Addr(AccKV(cc, bv, "ht", u)) ELSE {})

\* everything unit u of the forward launch loads (lines 75, 78-82)
FwdReads(cc, bv, u) ==
    UNION {Addr(AccK(cc, "q", u, t, 0) \cup AccK(cc, "k", u, t, 0)
                \cup AccK(cc, "a", u, t, 0) \cup AccK(cc, "b", u, t, 0)
                \cup AccV(cc, bv, "v", u, t)) : t \in 0..(Tloc(cc, u) - 1)}
    \cup (IF cc.useH0 THEN Addr(AccKV(cc, bv, "h0", u)) ELSE {})

\* everything unit u of the backward launch stores (lines 209-214, 233, 256, 265)
BwdWrites(cc, gg, u) ==
    UNION {Addr(AccK(cc, "dk", u, t, Slab(cc, u)) \cup AccK(cc, "db", u, t, Slab(cc, u))
                \cup AccK(cc, "da", u, t, Slab(cc, u))
                \cup AccK(cc, "dq", u, t, Slab(cc, u))
                \cup AccV(cc, gg.BV, "dv", u, t) \cup AccV(cc, gg.BV, "dha", u, t)) :
              t \in 0..(Tloc(cc, u) - 1)}
    \cup (IF gg.useDh0 THEN Addr(AccKV(cc, gg.BV, "dh0", u)) ELSE {})

\* everything unit u of the backward launch loads (lines 196, 199-205, 242,
\* 254-261)
BwdReads(cc, gg, u) ==
    UNION {Addr(AccK(cc, "q", u, t, 0) \cup AccK(cc, "k", u, t, 0)
                \cup AccK(cc, "a", u, t, 0) \cup AccK(cc, "b", u, t, 0)
                \cup AccV(cc, gg.BV, "v", u, t) \cup AccV(cc, gg.BV, "do", u, t)
                \cup AccV(cc, gg.BV, "ha", u, t) \cup AccV(cc, gg.BV, "dha", u, t)) :
              t \in 0..(Tloc(cc, u) - 1)}
    \cup (IF gg.useDht THEN Addr(AccKV(cc, gg.BV, "dht", u)) ELSE {})
    \cup (IF cc.useH0 THEN Addr(AccKV(cc, gg.BV, "h0", u)) ELSE {})

\* the offsets of slab iv of a [NV, B, T, H, K] buffer
SlabRange(cc, iv) ==
    (iv * cc.B * cc.T * cc.H * cc.K)..((iv + 1) * cc.B * cc.T * cc.H * cc.K - 1)

RECURSIVE FwdState(_, _, _, _, _)
FwdState(cc, bv, scale, u, t) ==
    IF t = 0 THEN FwdPrologue(cc, bv, u)
    ELSE FwdIteration(cc, bv, scale, u, t - 1, FwdState(cc, bv, scale, u, t - 1)).b_h

\* element (kk, vv) of the state the forward pass held for sequence n, head h
\* after t steps, under block width bv
FwdHeld(cc, bv, scale, n, h, t, kk, vv) ==
    LET u == UnitOf(cc, bv, n, h, vv)
    IN  FwdState(cc, bv, scale, u, t)[vv - i_v(u) * bv][kk]

\* C12: for every unit of the backward launch that is in its second pass and has
\* done m of its steps, the block it has rebuilt from the initial state with the
\* cached ha equals the state the forward pass held after step m (whichever block
\* width the forward launch was tuned to), and for every step t it has done the
\* stored da_t is the contraction of dha_t with the state before step t and the
\* stored dq_t the contraction of do_t with the state after it, times scale.
C12_RebuiltState ==
    pc \in {"bwd", "bwd_done"} =>
        \A u \in DOMAIN bregs :
            LET n == Tloc(c, u)
                m == bregs[u].pos - n
                S(t, kk, vv) == RefS(c, i_n(c, u), i_h(c, u), t)[vv][kk]
                Valid == {vj \in LanesV(g.BV) : i_v(u) * g.BV + vj < c.V}
            IN  m >= 0 =>
                    /\ \A kk \in 0..(c.K - 1), vj \in Valid, bv \in BVConfigs :
                          bregs[u].blk[kk][vj] =
                              FwdHeld(c, bv, meta.scale, i_n(c, u), i_h(c, u), m, kk,
                                      i_v(u) * g.BV + vj)
                    /\ \A t \in 0..(m - 1), kk \in 0..(c.K - 1) :
                          LET p == Slab(c, u) + p_K(c, u, t, kk)
                          IN  /\ p \in DOMAIN gout.da /\ p \in DOMAIN gout.dq
                              /\ gout.da[p] =
                                     SumTo([vj \in LanesV(g.BV) |->
                                               IF vj \in Valid
                                               THEN gout.dha[p_V(c, g.BV, u, t, vj)]
                                                    * S(t, kk, i_v(u) * g.BV + vj)
                                               ELSE 0], g.BV)
                              /\ gout.dq[p] =
                                     SumTo([vj \in LanesV(g.BV) |->
                                               IF vj \in Valid
                                               THEN g.do[p_V(c, g.BV, u, t, vj)]
                                                    * S(t + 1, kk, i_v(u) * g.BV + vj)
                                               ELSE 0], g.BV) * meta.scale

\* a unit has finished its second pass over two steps from a supplied initial
\* state, with a nonzero rebuilt state and nonzero da and dq
C12_Witness ==
    /\ pc = "bwd" /\ c.useH0 /\ c.T = 2 /\ ~c.varlen
    /\ \E u \in DOMAIN bregs :
          /\ bregs[u].pos = 4
          /\ \E kk \in 0..(c.K - 1) : bregs[u].blk[kk][0] # 0
          /\ \E p \in DOMAIN gout.da : gout.da[p] # 0
          /\ \E p \in DOMAIN gout.dq : gout.dq[p] # 0

\* ----------------------------------------------- final state under cu_seqlens
\* C13: in a call with cu_seqlens and output_final_state, every final-state
\* store of the forward kernel lies inside the allocated final_state buffer, and
\* the buffer returned holds one K x V state per (segment, head): the state of
\* that segment after its last time step.
C13_FinalStateInBuffer ==
    (Launched /\ c.varlen /\ c.outFinal) =>
        /\ \A p \in DOMAIN out.ht : p >= 0 /\ p < meta.htSize
        /\ pc = "fwd_done" =>
              /\ meta.htSize = meta.N * c.H * c.K * c.V
              /\ \A n \in 0..(meta.N - 1), h \in 0..(c.H - 1), kk \in 0..(c.K - 1),
                    vv \in 0..(c.V - 1) :
                     LET p == ((n * c.H + h) * c.K + kk) * c.V + vv
                     IN  p \in DOMAIN out.ht
                         /\ out.ht[p] = RefS(c, n, h, SeqLen(c, n))[vv][kk]

\* C13, the part the program keeps: the same when the table has no more
\* segments than the input has batch rows (one segment).
C13_OneSegmentInBuffer ==
    (Launched /\ c.varlen /\ c.outFinal /\ meta.N <= c.B) =>
        /\ \A p \in DOMAIN out.ht : p >= 0 /\ p < meta.htSize
        /\ pc = "fwd_done" =>
              /\ meta.htSize = meta.N * c.H * c.K * c.V
              /\ \A n \in 0..(meta.N - 1), h \in 0..(c.H - 1), kk \in 0..(c.K - 1),
                    vv \in 0..(c.V - 1) :
                     LET p == ((n * c.H + h) * c.K + kk) * c.V + vv
                     IN  p \in DOMAIN out.ht
                         /\ out.ht[p] = RefS(c, n, h, SeqLen(c, n))[vv][kk]

\* ------------------------------------------------------------ cache entries
\* the state the engine reaches on the input of the latest call, whether or not
\* the call asked for it
ReachedState ==
    GsaEngine(calls[1].q, calls[1].cu_seqlens, calls[1].initial_state, TRUE).final_state

\* the cache entry of the layer is what the latest call should have left: the
\* state reached after its input from the state the entry held before, and the
\* offset advanced by q_len
EntryFollows ==
    /\ Len(past_key_values.states) = 1
    /\ calls[1].initial_state =
           (IF Len(args.cache.states) > 0 THEN args.cache.states[1].recurrent_state
            ELSE <<>>)
    /\ past_key_values.states[1].recurrent_state # <<>>
    /\ past_key_values.states[1].recurrent_state = ReachedState
    /\ past_key_values.seen = args.cache.seen + args.q_len

\* C14: after every forward call that was given the cache object (with
\* use_cache or without), the layer's entry holds a recurrent state, never an
\* absent one: the state the engine reached from the entry's earlier state over
\* the call's input; the call read its initial state from the entry; and the
\* offset has advanced by q_len.
C14_CacheEntry ==
    (pc = "layer_done" /\ args.with_cache) => EntryFollows

\* C14, the part the program keeps: the same for a call made with use_cache
\* on an empty cache or on an entry that holds a state.
C14_CacheEntryWithUseCache ==
    (/\ pc = "layer_done" /\ args.with_cache /\ args.use_cache
     /\ (Len(args.cache.states) > 0 => args.cache.states[1].recurrent_state # <<>>))
        => EntryFollows

====
